---- MODULE Spec2Model ----
(***************************************************************************)
(* Model of pyros-app/src-tauri/src/main.rs: the two Tauri commands        *)
(* generate_image (Rust wrapper + the embedded Python script it runs) and  *)
(* list_images.                                                            *)
(*                                                                         *)
(* Text is modelled as sequences of one-character strings.  The result of  *)
(* a command is the record the caller sees: Ok(v) is                       *)
(* [images |-> v, error |-> <<>>], Err(m) is [images |-> <<>>, error |-> m]*)
(* with m a sequence of non-empty text fragments.                          *)
(***************************************************************************)
EXTENDS Integers, Sequences, FiniteSets, TLC

\* ------------------------------------------------------------- bounds
MaxCount == 2      \* largest requested image count (Spec)
GenPieces == 1     \* template length, in pieces, for Spec
MaxPieces == 4     \* template length, in pieces, for SpecResolve
ResolveCount == 1  \* largest requested image count for SpecResolve
MaxFiles == 3      \* entries in the output directory (SpecList)
MaxTime == 2       \* modification times range over 1..MaxTime (SpecList)

\* ------------------------------------------------------------- text
Quote == "'"
Backslash == "\\"
Newline == "\n"

Max(S) == CHOOSE x \in S : \A y \in S : y <= x
Min(S) == CHOOSE x \in S : \A y \in S : x <= y

RECURSIVE Flatten(_)
Flatten(ss) == IF ss = <<>> THEN <<>> ELSE Head(ss) \o Flatten(Tail(ss))

TokA == <<"_", "_", "a", "_", "_">>
TokB == <<"_", "_", "b", "_", "_">>

\* The pieces request prompts are built from.
Pieces == {TokA, TokB, <<" ">>, <<Backslash>>, <<Quote>>}

Templates(n) == UNION {{Flatten(f) : f \in [1..k -> Pieces]} : k \in 0..n}

\* Contents of the variable store (load_prompt_vars): token -> var.values.
StoreEmpty == [t \in {} |-> <<>>]
StoreColors == (TokA :> << <<"X">>, <<"Y">> >>) @@ (TokB :> <<>>)
StoreNested == (TokA :> << TokB >>) @@ (TokB :> << <<"Z">> >>)
Stores == {StoreEmpty, StoreColors, StoreNested}

\* width, height pairs of a request
Dims == {<<512, 512>>, <<1024, 768>>}

\* ---- line 93: prompt = '''{prompt}''' as Python reads it ---------------
\* The text of the source line after the opening quotes.
ScriptLine(raw) == raw \o <<Quote, Quote, Quote, Newline>>

\* What Python makes of backslash followed by c.
PyEscape(c) ==
    IF c = Backslash THEN <<Backslash>>
    ELSE IF c = Quote THEN <<Quote>>
    ELSE IF c = "a" THEN <<"BEL">>
    ELSE IF c = "b" THEN <<"BS">>
    ELSE IF c = Newline THEN <<>>
    ELSE <<Backslash, c>>

IsTriple(ext, i) ==
    i + 2 <= Len(ext) /\ ext[i] = Quote /\ ext[i+1] = Quote /\ ext[i+2] = Quote

SyntaxError == [ok |-> FALSE, text |-> <<>>, org |-> <<>>]

\* org: for each character of the value, the index in the request prompt of
\* the character it comes from (0: from the script's own text).
OrgOf(n, i) == IF i <= n THEN i ELSE 0

\* Python's tokenizer on the right-hand side of line 93: a triple-quoted
\* literal, then adjacent literals (concatenated) up to the end of the line.
\* mode: "triple" / "single" inside a literal, "after" between literals.
RECURSIVE PyString(_, _, _, _, _, _)
PyString(ext, n, i, mode, text, org) ==
    IF i > Len(ext) THEN SyntaxError
    ELSE IF mode = "after" THEN
        IF ext[i] = " " THEN PyString(ext, n, i + 1, "after", text, org)
        ELSE IF ext[i] = Newline THEN [ok |-> TRUE, text |-> text, org |-> org]
        ELSE IF IsTriple(ext, i) THEN PyString(ext, n, i + 3, "triple", text, org)
        ELSE IF ext[i] = Quote THEN PyString(ext, n, i + 1, "single", text, org)
        ELSE SyntaxError
    ELSE IF ext[i] = Backslash THEN
        IF i = Len(ext) THEN SyntaxError
        ELSE LET d == PyEscape(ext[i+1])
             IN PyString(ext, n, i + 2, mode, text \o d,
                         org \o [k \in 1..Len(d) |-> OrgOf(n, i + k - 1)])
    ELSE IF mode = "triple" /\ IsTriple(ext, i) THEN
        PyString(ext, n, i + 3, "after", text, org)
    ELSE IF mode = "single" /\ ext[i] = Quote THEN
        PyString(ext, n, i + 1, "after", text, org)
    ELSE IF ext[i] = Newline THEN SyntaxError
    ELSE PyString(ext, n, i + 1, mode, text \o <<ext[i]>>, org \o <<OrgOf(n, i)>>)

PyLiteral(raw) == PyString(ScriptLine(raw), Len(raw), 1, "triple", <<>>, <<>>)

\* ---- line 102-103: re.findall(r'(__[a-zA-Z0-9_\-/]+__)', prompt) -------
IsTokenChar(c) == c \in {"_", "-", "/", "a", "b", "X", "Y", "Z"}

RECURSIVE RunEnd(_, _)
RunEnd(s, j) == IF j + 1 <= Len(s) /\ IsTokenChar(s[j+1]) THEN RunEnd(s, j + 1) ELSE j

\* End of the (greedy) match starting at i, 0 when there is none.
MatchEnd(s, i) ==
    IF i + 1 <= Len(s) /\ s[i] = "_" /\ s[i+1] = "_"
    THEN LET j == RunEnd(s, i + 1)
             ends == {e \in (i + 4)..j : s[e-1] = "_" /\ s[e] = "_"}
         IN IF ends = {} THEN 0 ELSE Max(ends)
    ELSE 0

\* The non-overlapping matches, left to right, as spans [s, e].
RECURSIVE FindAllFrom(_, _)
FindAllFrom(s, i) ==
    IF i > Len(s) THEN <<>>
    ELSE LET e == MatchEnd(s, i)
         IN IF e = 0 THEN FindAllFrom(s, i + 1)
            ELSE <<[s |-> i, e |-> e]>> \o FindAllFrom(s, e + 1)

FindAll(s) == FindAllFrom(s, 1)

Tokens(s) == LET sp == FindAll(s) IN [k \in 1..Len(sp) |-> SubSeq(s, sp[k].s, sp[k].e)]

\* ---- line 108: prompt.replace(match, replacement, 1) -------------------
\* Index of the first occurrence of t in s, 0 when there is none.
IndexOf(s, t) ==
    LET at == {p \in 1..(Len(s) - Len(t) + 1) : SubSeq(s, p, p + Len(t) - 1) = t}
    IN IF at = {} THEN 0 ELSE Min(at)

Splice(s, p, n, r) == SubSeq(s, 1, p - 1) \o r \o SubSeq(s, p + n, Len(s))

Replace1(s, t, r) ==
    LET p == IndexOf(s, t) IN IF p = 0 THEN s ELSE Splice(s, p, Len(t), r)

\* line 104, 106: if match in prompt_vars ... if var.values
HasValues(vars, tok) == tok \in DOMAIN vars /\ vars[tok] /= <<>>


\* ---- line 119 / 133: json.dumps(results) and serde_json::from_str ------
RECURSIVE JsonItems(_)
JsonItems(xs) ==
    IF xs = <<>> THEN <<>>
    ELSE IF Len(xs) = 1 THEN <<[str |-> xs[1]]>>
    ELSE <<[str |-> xs[1]], ",">> \o JsonItems(Tail(xs))

\* The output line as lexical tokens.
JsonDumps(xs) == <<"[">> \o JsonItems(xs) \o <<"]">>

IsJsonString(t) == DOMAIN t = {"str"}

RECURSIVE ParseItems(_, _)
ParseItems(ts, acc) ==
    IF Len(ts) >= 1 /\ IsJsonString(ts[1]) THEN
        IF Len(ts) = 2 /\ ts[2] = "]" THEN [ok |-> TRUE, value |-> Append(acc, ts[1].str)]
        ELSE IF Len(ts) >= 3 /\ ts[2] = "," THEN
            ParseItems(SubSeq(ts, 3, Len(ts)), Append(acc, ts[1].str))
        ELSE [ok |-> FALSE, value |-> <<>>]
    ELSE [ok |-> FALSE, value |-> <<>>]

\* serde_json::from_str::<Vec<String>>: one array of strings and nothing else.
SerdeParse(ts) ==
    IF Len(ts) >= 1 /\ ts[1] = "[" THEN
        IF Len(ts) = 2 /\ ts[2] = "]" THEN [ok |-> TRUE, value |-> <<>>]
        ELSE ParseItems(Tail(ts), <<>>)
    ELSE [ok |-> FALSE, value |-> <<>>]

\* ------------------------------------------------------------- state
VARIABLES
    pc,        \* where the request is: "call", "spawn", "py_start", "subst",
               \* "gen", "exited", "returned"
    template,  \* the request's prompt
    count,     \* the request's count
    dims,      \* the request's <<width, height>>
    store,     \* what load_prompt_vars() returns
    status,    \* "pending", "cwd_error", "spawn_error", "exit_ok", "exit_fail"
    prompt,    \* the script's prompt
    matches,   \* the list re.findall returned
    mi,        \* position in matches (0 before the loop)
    results,   \* the script's results
    it,        \* iterations of the generation loop started
    inflight,  \* engine invocations started and not yet returned
    stdout,    \* the process's standard output, as tokens
    stderr,    \* the process's standard error, as fragments
    result,    \* what generate_image returned
    origin,    \* history: for each character of prompt, where it comes from:
               \* i > 0 the request prompt's i-th character, -k the
               \* replacement made for matches[k], 0 the script
    hits,      \* history: for each match handled, the origins of the
               \* characters replace() removed (<<>> when none)
    chosen,    \* history: for each match handled, the replacement drawn
    calls,     \* history: the arguments of each engine invocation
    outcomes,  \* history: "ok" / "err" per returned engine invocation
    dir,       \* the output directory
    listing,   \* what list_images returned
    scanned    \* history: the directory as list_images found it

genVars == <<pc, template, count, dims, store, status, prompt, matches, mi,
             results, it, inflight, stdout, stderr, result, origin, hits,
             chosen, calls, outcomes>>
listVars == <<dir, listing, scanned>>
vars == <<genVars, listVars>>

Ok(v) == [images |-> v, error |-> <<>>]
Err(m) == [images |-> <<>>, error |-> m]
NoResult == [images |-> <<>>, error |-> <<>>]

\* The path the engine returns for the i-th invocation.
Path(i) == <<"output", i>>

\* ------------------------------------------------------------- generate_image
\* line 72: current_dir() fails
CurrentDirFails ==
    /\ pc = "call"
    /\ pc' = "returned"
    /\ status' = "cwd_error"
    /\ result' = Err(<<"io error">>)
    /\ UNCHANGED <<template, count, dims, store, prompt, matches, mi, results, it,
                   inflight, stdout, stderr, origin, hits, chosen, calls, outcomes>>

\* line 72-76
CurrentDirOk ==
    /\ pc = "call"
    /\ pc' = "spawn"
    /\ UNCHANGED <<template, count, dims, store, status, prompt, matches, mi,
                   results, it, inflight, stdout, stderr, result, origin, hits,
                   chosen, calls, outcomes>>

\* line 122-123: the process cannot be started
SpawnFails ==
    /\ pc = "spawn"
    /\ pc' = "returned"
    /\ status' = "spawn_error"
    /\ result' = Err(<<"Failed to run Python: ", "io error">>)
    /\ UNCHANGED <<template, count, dims, store, prompt, matches, mi, results, it,
                   inflight, stdout, stderr, origin, hits, chosen, calls, outcomes>>

SpawnOk ==
    /\ pc = "spawn"
    /\ pc' = "py_start"
    /\ UNCHANGED <<template, count, dims, store, status, prompt, matches, mi,
                   results, it, inflight, stdout, stderr, result, origin, hits,
                   chosen, calls, outcomes>>

\* The process ends with a failure status; trace is what it wrote last.
Exit(trace) ==
    /\ pc' = "exited"
    /\ status' = "exit_fail"
    /\ stderr' = stderr \o trace
    /\ inflight' = {}

\* line 93: the literal does not compile
PyCompileError ==
    /\ pc = "py_start"
    /\ ~PyLiteral(template).ok
    /\ Exit(<<"SyntaxError">>)
    /\ UNCHANGED <<template, count, dims, store, prompt, matches, mi, results, it,
                   stdout, result, origin, hits, chosen, calls, outcomes>>

\* line 87-91: an import raises
PyImportFails ==
    /\ pc = "py_start"
    /\ PyLiteral(template).ok
    /\ Exit(<<"ImportError">>)
    /\ UNCHANGED <<template, count, dims, store, prompt, matches, mi, results, it,
                   stdout, result, origin, hits, chosen, calls, outcomes>>

\* line 99: load_prompt_vars() raises
PyLoadVarsFails ==
    /\ pc = "py_start"
    /\ PyLiteral(template).ok
    /\ Exit(<<"StoreUnavailable">>)
    /\ UNCHANGED <<template, count, dims, store, prompt, matches, mi, results, it,
                   stdout, result, origin, hits, chosen, calls, outcomes>>

AfterMatch(k, ms) == IF k > Len(ms) THEN "gen" ELSE "subst"

\* line 93-103: the assignments, load_prompt_vars() and re.findall
PyBegin ==
    /\ pc = "py_start"
    /\ LET lit == PyLiteral(template)
       IN /\ lit.ok
          /\ prompt' = lit.text
          /\ origin' = lit.org
          /\ matches' = Tokens(lit.text)
          /\ mi' = 1
          /\ pc' = AfterMatch(1, Tokens(lit.text))
    /\ UNCHANGED <<template, count, dims, store, status, results, it, inflight,
                   stdout, stderr, result, hits, chosen, calls, outcomes>>

\* line 104, 106: the match is no key of prompt_vars, or has no values
PySkip ==
    /\ pc = "subst"
    /\ ~HasValues(store, matches[mi])
    /\ mi' = mi + 1
    /\ pc' = AfterMatch(mi + 1, matches)
    /\ hits' = Append(hits, <<>>)
    /\ chosen' = Append(chosen, <<>>)
    /\ UNCHANGED <<template, count, dims, store, status, prompt, matches, results,
                   it, inflight, stdout, stderr, result, origin, calls, outcomes>>

\* line 107-108: random.choice and replace(match, replacement, 1)
PySubstitute ==
    /\ pc = "subst"
    /\ HasValues(store, matches[mi])
    /\ \E c \in 1..Len(store[matches[mi]]) :
          LET m == matches[mi]
              r == store[m][c]
              p == IndexOf(prompt, m)
          IN /\ prompt' = Replace1(prompt, m, r)
             /\ origin' = IF p = 0 THEN origin
                          ELSE Splice(origin, p, Len(m), [k \in 1..Len(r) |-> 0 - mi])
             /\ hits' = Append(hits, IF p = 0 THEN <<>>
                                     ELSE SubSeq(origin, p, p + Len(m) - 1))
             /\ chosen' = Append(chosen, r)
    /\ mi' = mi + 1
    /\ pc' = AfterMatch(mi + 1, matches)
    /\ UNCHANGED <<template, count, dims, store, status, matches, results, it,
                   inflight, stdout, stderr, result, calls, outcomes>>

\* line 112, 114: the loop calls generate_image only when the previous call
\* has returned
CanInvokeUnordered(i, n, fl) == i < n
CanInvoke(i, n, fl) == i < n /\ fl = {}

\* line 112-114: iteration it+1 calls the engine
PyInvoke ==
    /\ pc = "gen"
    /\ CanInvoke(it, count, inflight)
    /\ it' = it + 1
    /\ inflight' = inflight \cup {it + 1}
    /\ calls' = Append(calls, [prompt |-> prompt, width |-> dims[1], height |-> dims[2]])
    /\ UNCHANGED <<pc, template, count, dims, store, status, prompt, matches, mi,
                   results, stdout, stderr, result, origin, hits, chosen, outcomes>>

\* The engine writes to the process's standard output while it runs.
EngineWritesStdout ==
    /\ pc = "gen"
    /\ inflight /= {}
    /\ stdout = <<>>
    /\ stdout' = <<"progress">>
    /\ UNCHANGED <<pc, template, count, dims, store, status, prompt, matches, mi,
                   results, it, inflight, stderr, result, origin, hits, chosen,
                   calls, outcomes>>

\* line 114-115: the call returns (image, path)
PyInvokeOk ==
    /\ pc = "gen"
    /\ \E i \in inflight :
          /\ inflight' = inflight \ {i}
          /\ results' = Append(results, Path(i))
    /\ outcomes' = Append(outcomes, "ok")
    /\ UNCHANGED <<pc, template, count, dims, store, status, prompt, matches, mi,
                   it, stdout, stderr, result, origin, hits, chosen, calls>>

\* line 116-117: where the loop stands after the handler ran
AbortAfterError(i, n) == n
AfterError(i, n) == i

\* line 116-117: the call raises an Exception
PyInvokeError ==
    /\ pc = "gen"
    /\ \E i \in inflight : inflight' = inflight \ {i}
    /\ stderr' = Append(stderr, "Error: e")
    /\ outcomes' = Append(outcomes, "err")
    /\ it' = AfterError(it, count)
    /\ UNCHANGED <<pc, template, count, dims, store, status, prompt, matches, mi,
                   results, stdout, result, origin, hits, chosen, calls>>

\* line 114: the call ends the process (an exception that is no Exception, or
\* the process is killed: then nothing more is written)
PyInvokeFatal ==
    /\ pc = "gen"
    /\ inflight /= {}
    /\ \E trace \in {<<>>, <<"Traceback">>} : Exit(trace)
    /\ UNCHANGED <<template, count, dims, store, prompt, matches, mi, results, it,
                   stdout, result, origin, hits, chosen, calls, outcomes>>

\* line 119: print(json.dumps(results)), and the script ends
PyPrint ==
    /\ pc = "gen"
    /\ it >= count
    /\ inflight = {}
    /\ stdout' = stdout \o JsonDumps(results)
    /\ status' = "exit_ok"
    /\ pc' = "exited"
    /\ UNCHANGED <<template, count, dims, store, prompt, matches, mi, results, it,
                   inflight, stderr, result, origin, hits, chosen, calls, outcomes>>

\* line 127: the error for a failure status
BareStderr(err) == Err(err)
StatusError(err) == Err(<<"Generation failed: ">> \o err)

\* line 125-136: what generate_image returns for the process's output
Collect(st, out, err) ==
    IF st /= "exit_ok" THEN StatusError(err)
    ELSE LET parsed == SerdeParse(out)
         IN IF parsed.ok THEN Ok(parsed.value)
            ELSE Err(<<"Failed to parse output: ", "serde error", " - ">> \o <<"stdout">>)

\* line 125-128
RustStatusFailure ==
    /\ pc = "exited"
    /\ status = "exit_fail"
    /\ result' = Collect(status, stdout, stderr)
    /\ pc' = "returned"
    /\ UNCHANGED <<template, count, dims, store, status, prompt, matches, mi,
                   results, it, inflight, stdout, stderr, origin, hits, chosen,
                   calls, outcomes>>

\* line 130-134
RustParseFailure ==
    /\ pc = "exited"
    /\ status = "exit_ok"
    /\ ~SerdeParse(stdout).ok
    /\ result' = Collect(status, stdout, stderr)
    /\ pc' = "returned"
    /\ UNCHANGED <<template, count, dims, store, status, prompt, matches, mi,
                   results, it, inflight, stdout, stderr, origin, hits, chosen,
                   calls, outcomes>>

\* line 130-136
RustOk ==
    /\ pc = "exited"
    /\ status = "exit_ok"
    /\ SerdeParse(stdout).ok
    /\ result' = Collect(status, stdout, stderr)
    /\ pc' = "returned"
    /\ UNCHANGED <<template, count, dims, store, status, prompt, matches, mi,
                   results, it, inflight, stdout, stderr, origin, hits, chosen,
                   calls, outcomes>>

\* A request with a prompt of at most np pieces and a count of at most nc.
InitGenerate(np, nc) ==
    /\ pc = "call"
    /\ template \in Templates(np)
    /\ count \in 0..nc
    /\ dims \in Dims
    /\ store \in Stores
    /\ status = "pending"
    /\ prompt = <<>>
    /\ matches = <<>>
    /\ mi = 0
    /\ results = <<>>
    /\ it = 0
    /\ inflight = {}
    /\ stdout = <<>>
    /\ stderr = <<>>
    /\ result = NoResult
    /\ origin = <<>>
    /\ hits = <<>>
    /\ chosen = <<>>
    /\ calls = <<>>
    /\ outcomes = <<>>

\* ------------------------------------------------------------- list_images
\* File names, as the components a '.' separates: <<"a", "png">> is a.png,
\* <<"", "png">> is .png, <<"f">> is f.  One name is not valid UTF-8.
Names == {<<"a", "png">>, <<"b", "PNG">>, <<"c", "jpg">>, <<"d\\xFF", "jpeg">>,
          <<"e", "txt">>, <<"f">>, <<"", "png">>}

\* What can be read of an entry: st "ok", "entry_err" (the iterator yields an
\* error for it) or "meta_err" (metadata() or modified() fails); mtime 0
\* where it cannot be read.
Attrs ==
    {[st |-> "ok", mtime |-> t] : t \in 1..MaxTime}
    \cup {[st |-> x, mtime |-> 0] : x \in {"entry_err", "meta_err"}}

\* A directory.  kind: "missing", "unreadable" (it exists and read_dir fails)
\* or "ok"; create: whether create_dir_all succeeds; files: the entries, one
\* per name in ns with what f says can be read of it.
Directory(kind, create, ns, f) ==
    [kind |-> kind, create |-> create,
     files |-> {[name |-> n, st |-> f[n].st, mtime |-> f[n].mtime] : n \in ns}]

NoDirectory == [kind |-> "missing", create |-> FALSE, files |-> {}]
NoScan == [kind |-> "none", create |-> FALSE, files |-> {}]
NoListing == [error |-> FALSE, paths |-> <<>>]

\* line 18-30: get_output_dir, as what it leaves on disk
GetOutputDir(d) ==
    IF d.kind = "missing" /\ d.create THEN [d EXCEPT !.kind = "ok"] ELSE d

\* line 44: Path::extension; <<>> is None, <<x>> is Some(x)
Extension(name) ==
    IF Len(name) = 1 THEN <<>>
    ELSE IF Len(name) = 2 /\ name[1] = "" THEN <<>>
    ELSE <<name[Len(name)]>>

Lower(x) ==
    CASE x = "PNG" -> "png"
      [] x = "JPG" -> "jpg"
      [] x = "Jpg" -> "jpg"
      [] x = "JPEG" -> "jpeg"
      [] OTHER -> x

\* line 45-46
IsImageAnyCase(ext) == ext /= <<>> /\ Lower(ext[1]) \in {"png", "jpg", "jpeg"}
IsImage(ext) == ext /= <<>> /\ (ext[1] = "png" \/ ext[1] = "jpg" \/ ext[1] = "jpeg")

\* line 51: to_string_lossy on a component
Lossy(c) == IF c = "d\\xFF" THEN "d\\uFFFD" ELSE c

\* line 49, 51: the entry's path as a string
PathOf(name) == <<"output">> \o [i \in 1..Len(name) |-> Lossy(name[i])]

\* line 41-52: the filters, on the entries in the order read_dir yields them
RECURSIVE Collected(_)
Collected(es) ==
    IF es = <<>> THEN <<>>
    ELSE LET e == Head(es)
         IN IF e.st /= "entry_err" /\ IsImage(Extension(e.name)) /\ e.st /= "meta_err"
            THEN <<[path |-> PathOf(e.name), modified |-> e.mtime]>> \o Collected(Tail(es))
            ELSE Collected(Tail(es))

\* line 58: the comparison b.1.cmp(&a.1) puts a before b when a is newer
OlderFirst(a, b) == a.modified < b.modified
NewerFirst(a, b) == a.modified > b.modified

\* Insert x after the elements it does not go before.
RECURSIVE Insert(_, _)
Insert(x, xs) ==
    IF xs = <<>> THEN <<x>>
    ELSE IF NewerFirst(x, Head(xs)) THEN <<x>> \o xs
    ELSE <<Head(xs)>> \o Insert(x, Tail(xs))

\* line 58: images.sort_by(..), a stable sort
RECURSIVE SortImages(_)
SortImages(xs) ==
    IF xs = <<>> THEN <<>>
    ELSE Insert(xs[Len(xs)], SortImages(SubSeq(xs, 1, Len(xs) - 1)))

\* line 37-38, 55: read_dir(..).ok() ... .unwrap_or_default()
ReadOrPanic(readable, images) ==
    IF readable THEN [error |-> FALSE, paths |-> images]
    ELSE [error |-> TRUE, paths |-> <<>>]
ReadOrDefault(readable, images) ==
    IF readable THEN [error |-> FALSE, paths |-> images]
    ELSE [error |-> FALSE, paths |-> <<>>]

\* line 37: the orders in which read_dir can yield the entries (none when it fails)
ReadOrders(d) ==
    LET fs == IF d.kind = "ok" THEN d.files ELSE {}
    IN {o \in [1..Cardinality(fs) -> fs] : \A i, j \in DOMAIN o : o[i] = o[j] => i = j}

\* line 34-61
ListImages ==
    LET d == GetOutputDir(dir)
    IN /\ dir' = d
       /\ scanned' = dir
       /\ \E order \in ReadOrders(d) :
             LET sorted == SortImages(Collected(order))
             IN listing' = ReadOrDefault(d.kind = "ok",
                                         [i \in 1..Len(sorted) |-> sorted[i].path])

InitList ==
    /\ \/ \E c \in BOOLEAN : dir = Directory("missing", c, {}, <<>>)
       \/ \E k \in {"unreadable", "ok"} :
            \E ns \in {x \in SUBSET Names : Cardinality(x) <= MaxFiles} :
                \E f \in [ns -> Attrs] : dir = Directory(k, FALSE, ns, f)
    /\ listing = NoListing
    /\ scanned = NoScan

InitListIdle ==
    /\ dir = NoDirectory
    /\ listing = NoListing
    /\ scanned = NoScan

InitGenerateIdle ==
    /\ pc = "idle"
    /\ template = <<>>
    /\ count = 0
    /\ dims = <<512, 512>>
    /\ store = StoreEmpty
    /\ status = "pending"
    /\ prompt = <<>>
    /\ matches = <<>>
    /\ mi = 0
    /\ results = <<>>
    /\ it = 0
    /\ inflight = {}
    /\ stdout = <<>>
    /\ stderr = <<>>
    /\ result = NoResult
    /\ origin = <<>>
    /\ hits = <<>>
    /\ chosen = <<>>
    /\ calls = <<>>
    /\ outcomes = <<>>

Init == InitGenerate(GenPieces, MaxCount) /\ InitListIdle

InitResolve == InitGenerate(MaxPieces, ResolveCount) /\ InitListIdle

Next ==
    \/ CurrentDirFails /\ UNCHANGED listVars
    \/ CurrentDirOk /\ UNCHANGED listVars
    \/ SpawnFails /\ UNCHANGED listVars
    \/ SpawnOk /\ UNCHANGED listVars
    \/ PyCompileError /\ UNCHANGED listVars
    \/ PyImportFails /\ UNCHANGED listVars
    \/ PyLoadVarsFails /\ UNCHANGED listVars
    \/ PyBegin /\ UNCHANGED listVars
    \/ PySkip /\ UNCHANGED listVars
    \/ PySubstitute /\ UNCHANGED listVars
    \/ PyInvoke /\ UNCHANGED listVars
    \/ EngineWritesStdout /\ UNCHANGED listVars
    \/ PyInvokeOk /\ UNCHANGED listVars
    \/ PyInvokeError /\ UNCHANGED listVars
    \/ PyInvokeFatal /\ UNCHANGED listVars
    \/ PyPrint /\ UNCHANGED listVars
    \/ RustStatusFailure /\ UNCHANGED listVars
    \/ RustParseFailure /\ UNCHANGED listVars
    \/ RustOk /\ UNCHANGED listVars

Spec == Init /\ [][Next]_vars

SpecResolve == InitResolve /\ [][Next]_vars

NextList == ListImages /\ UNCHANGED genVars

InitScan == InitList /\ InitGenerateIdle

SpecList == InitScan /\ [][NextList]_vars

\* ------------------------------------------------------------- properties
\* A systemic failure: the process was not started, or ended with a failure status.
Systemic == status \in {"cwd_error", "spawn_error", "exit_fail"}

Returned == pc = "returned"

\* K: the engine invocations that succeeded
Succeeded == Len(SelectSeq(outcomes, LAMBDA o : o = "ok"))

\* C1: a request without systemic failure returns exactly the K produced
\* paths, with a non-empty error summary iff K < count (empty iff K = count).
C1_PartialFailureReported ==
    (Returned /\ ~Systemic) =>
        /\ Len(result.images) = Succeeded
        /\ (result.error /= <<>>) <=> (Succeeded < count)

\* C2: without systemic failure the engine is invoked exactly count times,
\* always with the resolved prompt and the request's dimensions; every
\* invocation that returned left exactly one outcome; a failed invocation does
\* not stop the later ones; the outcomes never exceed count and are count at
\* the end.
C2_EveryIterationRuns ==
    /\ Len(outcomes) <= count
    /\ Len(calls) <= count
    /\ \A i \in 1..Len(calls) :
          calls[i] = [prompt |-> prompt, width |-> dims[1], height |-> dims[2]]
    /\ ~Systemic => Len(outcomes) + Cardinality(inflight) = Len(calls)
    /\ (pc \in {"exited", "returned"} /\ ~Systemic) =>
          Len(calls) = count /\ Len(outcomes) = count

\* A batch of two or more ran to its end although its first invocation failed.
C2_Witness ==
    /\ Returned /\ ~Systemic
    /\ count >= 2
    /\ outcomes[1] = "err"
    /\ Len(calls) = count

\* C3: after a systemic failure the caller gets no artifact path and a
\* non-empty error message, whatever succeeded before.
C3_SystemicFailureHidesPartials ==
    (Returned /\ Systemic) => result.images = <<>> /\ result.error /= <<>>

\* The process ended with a failure status after an image had been produced.
C3_Witness ==
    /\ Returned
    /\ status = "exit_fail"
    /\ results /= <<>>
    /\ result.images = <<>>

\* C10: at most one engine invocation is in flight, and an invocation is in
\* flight only when every earlier one has returned.
C10_Sequential ==
    /\ Cardinality(inflight) <= 1
    /\ \A i \in inflight : Len(outcomes) = i - 1

\* The second invocation is in flight after the first one failed.
C10_Witness == inflight = {2} /\ outcomes = <<"err">>

\* The substitution loop has run to its end.
Resolved == mi >= 1 /\ mi > Len(matches)

\* The placeholder tokens of the request prompt, as spans.
Placeholders == FindAll(template)

TokenAt(sp) == SubSeq(template, sp.s, sp.e)

SpanOrigins(sp) == [i \in 1..(sp.e - sp.s + 1) |-> sp.s + i - 1]

\* The text the resolved prompt holds for the replacement made at step k.
InsertedAt(k) ==
    LET at == {p \in 1..Len(origin) : origin[p] = 0 - k}
    IN IF at = {} THEN <<>>
       ELSE IF Cardinality(at) = Max(at) - Min(at) + 1 THEN SubSeq(prompt, Min(at), Max(at))
       ELSE <<"scattered">>

\* C4: every occurrence of a placeholder that has candidates is replaced, at
\* its position, by one of its candidates, and none of its characters remains.
C4_EveryOccurrenceReplaced ==
    Resolved =>
        \A n \in 1..Len(Placeholders) :
            LET sp == Placeholders[n]
                tok == TokenAt(sp)
            IN HasValues(store, tok) =>
                /\ \A p \in 1..Len(origin) : origin[p] \notin sp.s..sp.e
                /\ \E k \in 1..Len(hits) :
                      /\ hits[k] = SpanOrigins(sp)
                      /\ \E c \in 1..Len(store[tok]) : chosen[k] = store[tok][c]
                      /\ InsertedAt(k) = chosen[k]

\* C5: every placeholder without candidates (no key, or no values) is in the
\* resolved prompt verbatim, and a prompt without placeholders is returned
\* unchanged.
C5_UnknownPreserved ==
    Resolved =>
        /\ \A n \in 1..Len(Placeholders) :
              LET sp == Placeholders[n]
                  tok == TokenAt(sp)
              IN ~HasValues(store, tok) =>
                   \E p \in 1..Len(prompt) :
                       /\ p + Len(tok) - 1 <= Len(prompt)
                       /\ SubSeq(prompt, p, p + Len(tok) - 1) = tok
                       /\ SubSeq(origin, p, p + Len(tok) - 1) = SpanOrigins(sp)
        /\ Placeholders = <<>> => prompt = template

\* C6: no replacement rewrites characters an earlier replacement put in.
C6_NoNestedExpansion ==
    \A k \in 1..Len(hits) : \A i \in 1..Len(hits[k]) : hits[k][i] >= 0

\* The modification time of the entry list_images found under path p.
ModifiedOf(p) == (CHOOSE e \in scanned.files : PathOf(e.name) = p).mtime

\* C7: the listing is ordered newest first.
C7_NewestFirst ==
    \A i, j \in 1..Len(listing.paths) :
        i < j => ModifiedOf(listing.paths[i]) >= ModifiedOf(listing.paths[j])

\* A listing of entries with different modification times.
C7_Witness ==
    /\ Len(listing.paths) >= 2
    /\ ModifiedOf(listing.paths[1]) > ModifiedOf(listing.paths[Len(listing.paths)])

\* C8: list_images never fails, and lists nothing when the directory is
\* missing (also when it cannot be created) or cannot be read.
C8_NeverFails ==
    /\ ~listing.error
    /\ scanned.kind \in {"missing", "unreadable"} => listing.paths = <<>>

\* The directory was missing and could not be created.
C8_Witness ==
    /\ scanned.kind = "missing"
    /\ ~scanned.create
    /\ dir.kind = "missing"
    /\ listing = NoListing

\* The paths of the entries of the scanned directory that can be read and
\* whose extension Accept takes.
ReadablePaths(Accept(_)) ==
    {PathOf(e.name) : e \in {x \in scanned.files : x.st = "ok" /\ Accept(Extension(x.name))}}

ListedPaths == {listing.paths[i] : i \in 1..Len(listing.paths)}

\* C9 as stated: the listing is exactly the readable entries whose extension
\* is png, jpg or jpeg in any letter case.
C9_AnyCaseExtensions ==
    scanned.kind = "ok" => ListedPaths = ReadablePaths(IsImageAnyCase)

\* C9 amended: the listing is exactly the readable entries whose extension is
\* literally png, jpg or jpeg (lower case), each listed once.
C9_ExactExtensions ==
    scanned.kind = "ok" =>
        /\ ListedPaths = ReadablePaths(LAMBDA x : x /= <<>> /\ x[1] \in {"png", "jpg", "jpeg"})
        /\ Len(listing.paths) = Cardinality(ListedPaths)

\* A directory with a.png and b.PNG of which only a.png is listed.
C9_Witness ==
    /\ scanned.kind = "ok"
    /\ \E e \in scanned.files : e.name = <<"b", "PNG">> /\ e.st = "ok"
    /\ ListedPaths = {PathOf(<<"a", "png">>)}

====
